---- MODULE Spec2Model ----
(***************************************************************************)
(* A model of malmo::Logger (Malmo/src/Logger.h): the severity gate and    *)
(* formatter of Logger::print, the line buffer, the section indentation,   *)
(* the sink writer, the background spooler thread (log_spooler) and the    *)
(* teardown protocol of ~Logger.                                           *)
(*                                                                         *)
(* Text is a sequence of character codes (10 is '\n').  The timestamp and  *)
(* the origin tag " P " that print puts in front of every line carry no    *)
(* state and are left out of the line.  The members line_number,           *)
(* terminated and spooler are written or declared but never read by any    *)
(* code of the class and are not part of the state.                        *)
(*                                                                         *)
(* Every thread moves one step at a time: one step is one call that reads  *)
(* or writes state another thread can reach.  The spooler's lock() and the *)
(* begin()/end() of its range-for, the copy of an element, the test of     *)
(* writer.is_open(), '<< str' and '<< std::endl', the is_open(), close()   *)
(* and open() of setFilename and of ~Logger, and the calls a LogSection    *)
(* makes are separate steps, so the steps of other threads fall between.   *)
(*                                                                         *)
(* The sink is the sequence of insertions made into the console and the    *)
(* log file: the text of a line, and the newline of std::endl.             *)
(*                                                                         *)
(* ~Logger runs clear_backlog without write_guard: the begin() and the     *)
(* end() of its range-for are two steps, and a push_back between them      *)
(* leaves a torn range.  Where the loop races with another thread's        *)
(* push_back or clear, its reads are undefined; they are modelled as a     *)
(* choice between the old element, the line that now lives in the same     *)
(* slot, a line that was never logged, and the end of the process (Deref). *)
(* Reads and writes of single members (severity_level, the atomics, the    *)
(* vector's size) are atomic steps.  ~Logger ends with the destruction of  *)
(* the members at its closing brace: writer, which closes the file, and    *)
(* then log_buffer with the lines that are still in it.  The threads that  *)
(* are still running use the destroyed members, which is undefined: the    *)
(* vector keeps its stale size or is empty, a range over it reads freed    *)
(* strings, a push_back or clear on it can end the process, and an         *)
(* insertion into the destroyed writer can fail even after setFilename has *)
(* opened a file on it.                                                    *)
(***************************************************************************)
EXTENDS Integers, Sequences, FiniteSets, TLC

\* ------------------------------------------------------------------ bounds
\* Producer threads of the concurrent specification.
NumProducers == 1
\* Log calls that pass the gate, over all producers.
MaxCalls == 2
\* Lines the caller of the gate and sink specifications appends.
MaxLines == 2
\* Lines the caller of the section specification appends.
MaxSectionLines == 4
\* Deepest nesting of sections the section specification opens.
MaxDepth == 2
\* setFilename calls made while the threads run
MaxConfigs == 2

\* ------------------------------------------------- LoggingSeverityLevel
LOG_OFF == 0
LOG_ERRORS == 1
LOG_WARNINGS == 2
LOG_INFO == 3
LOG_FINE == 4
LOG_TRACE == 5
LOG_ALL == 6
Levels == LOG_OFF .. LOG_ALL

\* for (i < indentation) message_stream << "    ";
IndentWidth == 4
\* while (has_backend && (now - start).count() < 2.0)
WaitLimit == 2

NL == 10
\* "a\nb", "X", "{", "}"
MsgA == <<97, NL, 98>>
TitleX == <<88>>
OpenMark == <<123>>
CloseMark == <<125>>

Console == "console"
GoodFile == "malmo.log"
BadFile == "/no/such/dir/malmo.log"
Files == {GoodFile, BadFile}

\* Thread identities for the lock owner: producers are 1..NumProducers.
Producers == 1 .. NumProducers
Spooler == 0
Dtor == -1
Free == -2
Drainers == {Spooler, Dtor}
Caller == -3

VARIABLES
  severity_level,   \* Logger::severity_level
  indentation,      \* Logger::indentation
  log_buffer,       \* Logger::log_buffer
  write_guard,      \* owner of Logger::write_guard, or Free
  has_backend,      \* Logger::has_backend
  is_spooling,      \* Logger::is_spooling (atomic_flag)
  writer_open,      \* writer.is_open()
  writer_file,      \* the path writer was opened on
  writer_fail,      \* writer.fail(): failbit or badbit of the stream is set
  sink,             \* every insertion so far: [to, str] in write order
  w_pc,             \* position of the log_spooler thread
  d_pc,             \* position of ~Logger
  d_elapsed,        \* clock ticks since ~Logger took 'start'
  p_pc,             \* position of each producer inside print
  p_line,           \* the line a producer has formatted and not yet pushed
  p_calls,          \* log calls of each producer that passed the gate
  cb,               \* per drainer: the running clear_backlog loop
  cfg,              \* position of a caller inside setFilename
  s_pc,             \* position of the caller inside a LogSection's ctor/dtor
  last,             \* history: the caller's last call and the state it saw
  sections,         \* history: levels of the LogSection objects alive
  deepest,          \* history: deepest section nesting reached
  pushed,           \* history: every line pushed into the buffer, in order
  at_start,         \* history: what ~Logger found when it began
  at_stop           \* history: what the spooler's last flag test found

vars == <<severity_level, indentation, log_buffer, write_guard, has_backend,
          is_spooling, writer_open, writer_file, writer_fail, sink, w_pc,
          d_pc, d_elapsed, p_pc, p_line, p_calls, cb, cfg, s_pc, last,
          sections, deepest, pushed, at_start, at_stop>>

\* ---------------------------------------------------------------- helpers
RECURSIVE StripNewlines(_)
\* str.erase(std::remove(str.begin(), str.end(), '\n'), str.end())
StripNewlines(text) ==
  IF text = <<>> THEN <<>>
  ELSE IF Head(text) = NL THEN StripNewlines(Tail(text))
       ELSE <<Head(text)>> \o StripNewlines(Tail(text))

\* Variants of the gate: a strict comparison, and the comparison reversed.
PassesGate_Strict(level, threshold) == level < threshold
PassesGate_Inverted(level, threshold) == ~(level < threshold)

\* if (level > severity_level) return;
PassesGate(level, threshold) == ~(level > threshold)

\* Variant: LOG_ALL grouped with LOG_TRACE and LOG_OFF.
Label_AllAsTrace(level) ==
  CASE level = LOG_ERRORS -> "ERROR   "
    [] level = LOG_WARNINGS -> "WARNING "
    [] level = LOG_INFO -> "INFO    "
    [] level = LOG_FINE -> "FINE    "
    [] OTHER -> "TRACE   "

\* switch (level) of Logger::print
Label(level) ==
  CASE level = LOG_ALL -> "ERROR   "
    [] level = LOG_ERRORS -> "ERROR   "
    [] level = LOG_WARNINGS -> "WARNING "
    [] level = LOG_INFO -> "INFO    "
    [] level = LOG_FINE -> "FINE    "
    [] level = LOG_TRACE -> "TRACE   "
    [] level = LOG_OFF -> "TRACE   "
    [] OTHER -> ""

\* for (int i = 0; i < this->indentation; i++) message_stream << "    ";
Pad(ind) == IF ind > 0 THEN IndentWidth * ind ELSE 0

\* The line print hands to print_impl: label, indentation spaces, arguments.
FormatLine(level, ind, msg) ==
  [label |-> Label(level), pad |-> Pad(ind), text |-> msg]

\* this->log_buffer.push_back(message_stream.str())
push_back(buf, line) == Append(buf, line)

\* What Logger::print<level>(msg) leaves in the buffer when run to completion.
print(buf, threshold, ind, level, msg) ==
  IF PassesGate(level, threshold)
    THEN push_back(buf, FormatLine(level, ind, msg))
    ELSE buf

\* The cases of appendToLog's switch.
HasCase(level) ==
  level \in {LOG_ERRORS, LOG_WARNINGS, LOG_INFO, LOG_FINE, LOG_TRACE, LOG_ALL}

\* Logger::appendToLog(level, msg)
appendToLog(buf, threshold, ind, level, msg) ==
  IF HasCase(level) THEN print(buf, threshold, ind, level, msg) ELSE buf

\* Which paths the file system lets writer.open succeed on.
CanOpen(file) == file = GoodFile

\* The std::ofstream 'writer' as a record.
Writer == [open |-> writer_open, file |-> writer_file, fail |-> writer_fail]

\* this->writer.close(): on a stream that is not open it sets failbit.
writer_close(w) ==
  IF w.open THEN [open |-> FALSE, file |-> "", fail |-> w.fail]
  ELSE [w EXCEPT !.fail = TRUE]

\* this->writer.open(file, out | app): on a stream that is already open, and
\* on a path that cannot be opened, it fails and sets failbit; on success it
\* clears the error state.
writer_open_call(w, file) ==
  IF w.open THEN [w EXCEPT !.fail = TRUE]
  ELSE IF CanOpen(file) THEN [open |-> TRUE, file |-> file, fail |-> FALSE]
  ELSE [open |-> FALSE, file |-> "", fail |-> TRUE]

\* Variant: an exit that leaves the depth as it is.
unindent_Forgotten(ind) == ind

\* Variant: an enter that leaves the depth as it is.
indent_Nothing(ind) == ind

\* Logger::indent and Logger::unindent (under write_guard)
indent(ind) == ind + 1
unindent(ind) == ind - 1

\* std::string str(logline); str.erase(std::remove(..., '\n'), str.end())
Strip(line) == [line EXCEPT !.text = StripNewlines(@)]

\* What '<< std::endl' inserts.
EndL == [label |-> "", pad |-> 0, text |-> <<NL>>]

\* One insertion of Logger::performWrite ('<< str', then '<< std::endl')
\* after 'writer.is_open()' has returned seen_open: what reaches the sink
\* (nothing when the stream it goes to is closed or failed by then) and the
\* stream afterwards.
performWrite(str, seen_open, w) ==
  IF ~seen_open
    THEN [out |-> <<[to |-> Console, str |-> str]>>, w |-> w]
  ELSE IF w.open /\ ~w.fail
    THEN [out |-> <<[to |-> w.file, str |-> str]>>, w |-> w]
  ELSE [out |-> <<>>, w |-> [w EXCEPT !.fail = TRUE]]

\* What a read of a destroyed or moved-from buffer element can yield when it
\* is not the old text: a line that is none of the lines logged.
Garbage == [label |-> "", pad |-> 0, text |-> <<>>]
\* A read of freed storage that ends the process (std::terminate).
Crash == [label |-> "", pad |-> -1, text |-> <<>>]

NoCall == [op |-> "none", level |-> LOG_OFF, thr |-> LOG_OFF, ind |-> 0,
           npushed |-> 0]
IdleLoop ==
  [snap |-> <<>>, i |-> 0, dirty |-> FALSE, cur |-> Garbage, seen |-> FALSE]
NotStarted == [begun |-> FALSE, quiet |-> FALSE, lines |-> <<>>]
NotStopped == [seen |-> FALSE, buf |-> <<>>, acked |-> FALSE]
NoConfig == [pc |-> "idle", file |-> "", calls |-> 0, logging |-> FALSE]

Init ==
  /\ severity_level = LOG_OFF
  /\ indentation = 0
  /\ log_buffer = <<>>
  /\ write_guard = Free
  /\ has_backend = FALSE
  /\ is_spooling = FALSE
  /\ writer_open = FALSE
  /\ writer_file = ""
  /\ writer_fail = FALSE
  /\ sink = <<>>
  /\ w_pc = "start"
  /\ d_pc = "idle"
  /\ d_elapsed = 0
  /\ p_pc = [p \in Producers |-> "idle"]
  /\ p_line = [p \in Producers |-> Garbage]
  /\ p_calls = [p \in Producers |-> 0]
  /\ cb = [t \in Drainers |-> IdleLoop]
  /\ cfg = NoConfig
  /\ s_pc = "idle"
  /\ last = NoCall
  /\ sections = <<>>
  /\ deepest = 0
  /\ pushed = <<>>
  /\ at_start = NotStarted
  /\ at_stop = NotStopped

\* ------------------------------------------------- the threads of a Logger
\* The threshold the application configures and the level producers log at.
RunLevel == LOG_INFO
\* The text of producer p's k-th call: "a1", "a2", "b1", ...
Msg(p, k) == <<96 + p, 48 + k>>
RECURSIVE SumCalls(_)
SumCalls(n) == IF n = 0 THEN 0 ELSE p_calls[n] + SumCalls(n - 1)
TotalCalls == SumCalls(NumProducers)

\* Inside clear_backlog's range-for: at the loop head, or inside performWrite
\* before its test of writer.is_open(), before '<< str', before '<< endl'.
InLoop(pc) == pc \in {"iter", "check", "write", "endl"}
DrainerPc(t) == IF t = Spooler THEN w_pc ELSE d_pc

\* A mutation of log_buffer by thread 'by' invalidates the iterators of every
\* other thread that is inside clear_backlog's range-for.  A push_back that
\* falls between ~Logger's begin() and its end() can reallocate, which leaves
\* the two iterators in different storage.
Invalidate(loops, by) ==
  [t \in Drainers |->
     IF /\ t # by
        /\ \/ InLoop(DrainerPc(t))
           \/ DrainerPc(t) = "end" /\ by \notin Drainers
       THEN [loops[t] EXCEPT !.dirty = TRUE]
       ELSE loops[t]]

\* ~Logger has passed the implicit destruction of member writer.
WriterDestroyed == d_pc \in {"destroy_buffer", "done"}

\* ~Logger has passed the implicit destruction of member log_buffer: the
\* storage of the vector and of its strings is freed.
BufferDestroyed == d_pc = "done"

\* for (auto& item : this->log_buffer): begin() and end() are taken once;
\* the range is the buffer as it is when end() is taken.  It is torn when
\* begin() was taken before a reallocation, and it lies in freed storage
\* when the vector has been destroyed.
BeginLoop(t) ==
  [snap |-> log_buffer, i |-> 1, dirty |-> cb[t].dirty \/ BufferDestroyed,
   cur |-> Garbage, seen |-> FALSE]

\* What dereferencing the iterator yields: the element, or, once another
\* thread has cleared or reallocated the vector or the range is torn, any
\* of: the old text, the line that has been pushed into the same slot since,
\* something that is no line, or the end of the process.
Deref(loop) ==
  IF loop.dirty
    THEN {loop.snap[loop.i], Garbage, Crash}
           \cup (IF loop.i <= Len(log_buffer) THEN {log_buffer[loop.i]}
                 ELSE {})
    ELSE {loop.snap[loop.i]}

\* std::terminate: every thread of the process ends where it is.
Terminate ==
  /\ w_pc' = "dead"
  /\ d_pc' = "dead"
  /\ p_pc' = [p \in Producers |-> "dead"]
  /\ cfg' = [cfg EXCEPT !.pc = "dead"]
  /\ s_pc' = "dead"
  /\ UNCHANGED <<severity_level, indentation, log_buffer, write_guard,
                 has_backend, is_spooling, writer_open, writer_file,
                 writer_fail, sink, d_elapsed, p_line, p_calls, cb, last,
                 sections, deepest, pushed, at_start, at_stop>>

\* Variant: a lock() that returns without owning the mutex.
lock_NotTaken(guard, t) == guard

\* std::mutex::lock() by thread t, once it returns: t owns the mutex.
lock(guard, t) == t

\* Variant: a mutex that any thread can take at any time.
unlocked_Always(guard) == TRUE

\* std::mutex::lock() returns only when no thread owns the mutex.
unlocked(guard) == guard = Free

\* print<RunLevel>(msg): the gate and the formatting, before print_impl.
PrintGate(p) ==
  /\ p_pc[p] = "idle"
  /\ TotalCalls < MaxCalls
  /\ IF PassesGate(RunLevel, severity_level)
       THEN /\ p_line' = [p_line EXCEPT ![p] =
                 FormatLine(RunLevel, indentation, Msg(p, p_calls[p] + 1))]
            /\ p_pc' = [p_pc EXCEPT ![p] = "formatted"]
            /\ p_calls' = [p_calls EXCEPT ![p] = @ + 1]
       ELSE UNCHANGED <<p_line, p_pc, p_calls>>
  /\ UNCHANGED <<severity_level, indentation, log_buffer, write_guard,
                 has_backend, is_spooling, writer_open, writer_file,
                 writer_fail, sink, w_pc, d_pc, d_elapsed, cb, cfg, s_pc,
                 last, sections, deepest, pushed, at_start, at_stop>>

\* print_impl: std::lock_guard lock(this->write_guard)
PrintLock(p) ==
  /\ p_pc[p] = "formatted"
  /\ unlocked(write_guard)
  /\ write_guard' = lock(write_guard, p)
  /\ p_pc' = [p_pc EXCEPT ![p] = "locked"]
  /\ UNCHANGED <<severity_level, indentation, log_buffer, has_backend,
                 is_spooling, writer_open, writer_file, writer_fail, sink,
                 w_pc, d_pc, d_elapsed, p_line, p_calls, cb, cfg, s_pc, last,
                 sections, deepest, pushed, at_start, at_stop>>

\* print_impl: push_back, then the guard releases the lock.  A push_back
\* on the destroyed vector writes into freed storage or ends the process.
PrintPush(p) ==
  /\ p_pc[p] = "locked"
  /\ \/ /\ log_buffer' = push_back(log_buffer, p_line[p])
        /\ pushed' = Append(pushed, p_line[p])
        /\ cb' = Invalidate(cb, p)
        /\ write_guard' = Free
        /\ p_pc' = [p_pc EXCEPT ![p] = "idle"]
        /\ UNCHANGED <<severity_level, indentation, has_backend, is_spooling,
                       writer_open, writer_file, writer_fail, sink, w_pc,
                       d_pc, d_elapsed, p_line, p_calls, cfg, s_pc, last,
                       sections, deepest, at_start, at_stop>>
     \/ /\ BufferDestroyed
        /\ Terminate

\* ---- clear_backlog, as run by the spooler and by ~Logger
\* The drainer's position moves on.
SetPc(t, pc) ==
  IF t = Spooler THEN w_pc' = pc /\ d_pc' = d_pc
  ELSE d_pc' = pc /\ w_pc' = w_pc

\* One turn of the range-for: the end is found, or performWrite is called
\* on the next element and copies it ('std::string str(logline)', the first
\* read of the element) and erases its newlines.
LoopIter(t) ==
  /\ DrainerPc(t) = "iter"
  /\ IF cb[t].i <= Len(cb[t].snap)
       THEN \E item \in Deref(cb[t]) :
              IF item = Crash
                THEN Terminate
                ELSE /\ cb' = [cb EXCEPT ![t].cur = Strip(item)]
                     /\ SetPc(t, "check")
                     /\ UNCHANGED <<severity_level, indentation, log_buffer,
                                    write_guard, has_backend, is_spooling,
                                    writer_open, writer_file, writer_fail,
                                    sink, d_elapsed, p_pc, p_line, p_calls,
                                    cfg, s_pc, last, sections, deepest,
                                    pushed, at_start, at_stop>>
       ELSE /\ SetPc(t, "clear")
            /\ UNCHANGED <<severity_level, indentation, log_buffer,
                           write_guard, has_backend, is_spooling, writer_open,
                           writer_file, writer_fail, sink, d_elapsed, p_pc,
                           p_line, p_calls, cb, cfg, s_pc, last, sections,
                           deepest, pushed, at_start, at_stop>>

\* performWrite(item): if (this->writer.is_open())
LoopCheck(t) ==
  /\ DrainerPc(t) = "check"
  /\ cb' = [cb EXCEPT ![t].seen = writer_open]
  /\ SetPc(t, "write")
  /\ UNCHANGED <<severity_level, indentation, log_buffer, write_guard,
                 has_backend, is_spooling, writer_open, writer_file,
                 writer_fail, sink, d_elapsed, p_pc, p_line, p_calls, cfg,
                 s_pc, last, sections, deepest, pushed, at_start, at_stop>>

\* What an insertion yields: performWrite's result, or, when the stream is
\* the destroyed writer, an insertion that fails and sets the error state.
Insert(str, seen_open, w) ==
  {performWrite(str, seen_open, w)}
    \cup (IF WriterDestroyed /\ seen_open
            THEN {[out |-> <<>>, w |-> [w EXCEPT !.fail = TRUE]]}
            ELSE {})

\* performWrite(item): 'writer << str', or 'std::cout << str'
LoopWrite(t) ==
  /\ DrainerPc(t) = "write"
  /\ \E r \in Insert(cb[t].cur, cb[t].seen, Writer) :
        /\ sink' = sink \o r.out
        /\ writer_open' = r.w.open
        /\ writer_file' = r.w.file
        /\ writer_fail' = r.w.fail
  /\ SetPc(t, "endl")
  /\ UNCHANGED <<severity_level, indentation, log_buffer, write_guard,
                 has_backend, is_spooling, d_elapsed, p_pc, p_line, p_calls,
                 cb, cfg, s_pc, last, sections, deepest, pushed, at_start,
                 at_stop>>

\* performWrite(item): '<< std::endl' on the same stream; performWrite
\* returns, its copy 'str' is gone, and the loop moves on
LoopEndl(t) ==
  /\ DrainerPc(t) = "endl"
  /\ \E r \in Insert(EndL, cb[t].seen, Writer) :
        /\ sink' = sink \o r.out
        /\ writer_open' = r.w.open
        /\ writer_file' = r.w.file
        /\ writer_fail' = r.w.fail
  /\ cb' = [cb EXCEPT ![t].i = @ + 1, ![t].cur = Garbage, ![t].seen = FALSE]
  /\ SetPc(t, "iter")
  /\ UNCHANGED <<severity_level, indentation, log_buffer, write_guard,
                 has_backend, is_spooling, d_elapsed, p_pc, p_line, p_calls,
                 cfg, s_pc, last, sections, deepest, pushed, at_start,
                 at_stop>>

\* this->log_buffer.clear().  On the destroyed vector it destroys freed
\* strings a second time, which can end the process.
LoopClear(t) ==
  /\ DrainerPc(t) = "clear"
  /\ \/ /\ log_buffer' = <<>>
        /\ cb' = [Invalidate(cb, t) EXCEPT ![t] = IdleLoop]
        /\ SetPc(t, IF t = Spooler THEN "unlock" ELSE "detach")
        /\ UNCHANGED <<severity_level, indentation, write_guard, has_backend,
                       is_spooling, writer_open, writer_file, writer_fail,
                       sink, d_elapsed, p_pc, p_line, p_calls, cfg, s_pc,
                       last, sections, deepest, pushed, at_start, at_stop>>
     \/ /\ BufferDestroyed
        /\ log_buffer # <<>>
        /\ Terminate

\* ---- log_spooler
\* logger->has_backend = true
SpoolerStart ==
  /\ w_pc = "start"
  /\ has_backend' = TRUE
  /\ w_pc' = "arm"
  /\ UNCHANGED <<severity_level, indentation, log_buffer, write_guard,
                 is_spooling, writer_open, writer_file, writer_fail, sink,
                 d_pc, d_elapsed, p_pc, p_line, p_calls, cb, cfg, s_pc, last,
                 sections, deepest, pushed, at_start, at_stop>>

\* logger->is_spooling.test_and_set()
SpoolerArm ==
  /\ w_pc = "arm"
  /\ is_spooling' = TRUE
  /\ w_pc' = "sleep"
  /\ UNCHANGED <<severity_level, indentation, log_buffer, write_guard,
                 has_backend, writer_open, writer_file, writer_fail, sink,
                 d_pc, d_elapsed, p_pc, p_line, p_calls, cb, cfg, s_pc, last,
                 sections, deepest, pushed, at_start, at_stop>>

\* if (logger->log_buffer.size()): into the drain, or on to the loop test
AfterPoll(size) == IF size # 0 THEN "lock" ELSE "test"

\* sleep_for(100ms); if (logger->log_buffer.size())
SpoolerPoll ==
  /\ w_pc = "sleep"
  /\ w_pc' = AfterPoll(Len(log_buffer))
  /\ UNCHANGED <<severity_level, indentation, log_buffer, write_guard,
                 has_backend, is_spooling, writer_open, writer_file,
                 writer_fail, sink, d_pc, d_elapsed, p_pc, p_line, p_calls,
                 cb, cfg, s_pc, last, sections, deepest, pushed, at_start,
                 at_stop>>

\* writing_lock.lock()
SpoolerLock ==
  /\ w_pc = "lock"
  /\ unlocked(write_guard)
  /\ write_guard' = lock(write_guard, Spooler)
  /\ w_pc' = "begin"
  /\ UNCHANGED <<severity_level, indentation, log_buffer, has_backend,
                 is_spooling, writer_open, writer_file, writer_fail, sink,
                 d_pc, d_elapsed, p_pc, p_line, p_calls, cb, cfg, s_pc, last,
                 sections, deepest, pushed, at_start, at_stop>>

\* logger->clear_backlog(): the range-for takes begin() and end()
SpoolerBegin ==
  /\ w_pc = "begin"
  /\ cb' = [cb EXCEPT ![Spooler] = BeginLoop(Spooler)]
  /\ w_pc' = "iter"
  /\ UNCHANGED <<severity_level, indentation, log_buffer, write_guard,
                 has_backend, is_spooling, writer_open, writer_file,
                 writer_fail, sink, d_pc, d_elapsed, p_pc, p_line, p_calls,
                 cfg, s_pc, last, sections, deepest, pushed, at_start,
                 at_stop>>

SpoolerIter == LoopIter(Spooler)

SpoolerCheck == LoopCheck(Spooler)

SpoolerWrite == LoopWrite(Spooler)

SpoolerEndl == LoopEndl(Spooler)

SpoolerClear == LoopClear(Spooler)

\* writing_lock.unlock()
SpoolerUnlock ==
  /\ w_pc = "unlock"
  /\ write_guard' = Free
  /\ w_pc' = "test"
  /\ UNCHANGED <<severity_level, indentation, log_buffer, has_backend,
                 is_spooling, writer_open, writer_file, writer_fail, sink,
                 d_pc, d_elapsed, p_pc, p_line, p_calls, cb, cfg, s_pc, last,
                 sections, deepest, pushed, at_start, at_stop>>

\* Variant: the loop condition negated.
AfterTest_Swapped(was_set) == IF was_set THEN "ack" ELSE "sleep"

\* do { ... } while (test_and_set()): where the old value of the flag leads
AfterTest(was_set) == IF was_set THEN "sleep" ELSE "ack"

\* while (logger->is_spooling.test_and_set())
SpoolerTest ==
  /\ w_pc = "test"
  /\ is_spooling' = TRUE
  /\ w_pc' = AfterTest(is_spooling)
  /\ at_stop' = IF is_spooling THEN at_stop
                ELSE [at_stop EXCEPT !.seen = TRUE, !.buf = log_buffer]
  /\ UNCHANGED <<severity_level, indentation, log_buffer, write_guard,
                 has_backend, writer_open, writer_file, writer_fail, sink,
                 d_pc, d_elapsed, p_pc, p_line, p_calls, cb, cfg, s_pc, last,
                 sections, deepest, pushed, at_start>>

\* Variant: the thread goes round the loop again after the acknowledgement.
AfterAck_LoopAgain == "sleep"

\* After line 204 the thread sleeps for 100 s and returns.
AfterAck == "parked"

\* logger->has_backend = false; then the thread sleeps for 100 s
SpoolerAck ==
  /\ w_pc = "ack"
  /\ has_backend' = FALSE
  /\ w_pc' = AfterAck
  /\ at_stop' = [at_stop EXCEPT !.acked = TRUE]
  /\ UNCHANGED <<severity_level, indentation, log_buffer, write_guard,
                 is_spooling, writer_open, writer_file, writer_fail, sink,
                 d_pc, d_elapsed, p_pc, p_line, p_calls, cb, cfg, s_pc, last,
                 sections, deepest, pushed, at_start>>

\* ---- Logger::setFilename on a caller's thread, call by call
\* the call of setFilename(file), by the application or by setLogging
setFilenameCall(logging) ==
  /\ cfg.pc = "idle"
  /\ s_pc = "idle"
  /\ cfg.calls < MaxConfigs
  /\ \E file \in Files :
       cfg' = [pc |-> "is_open", file |-> file, calls |-> cfg.calls + 1,
               logging |-> logging]
  /\ UNCHANGED <<severity_level, indentation, log_buffer, write_guard,
                 has_backend, is_spooling, writer_open, writer_file,
                 writer_fail, sink, w_pc, d_pc, d_elapsed, p_pc, p_line,
                 p_calls, cb, s_pc, last, sections, deepest, pushed, at_start,
                 at_stop>>

\* the call: setFilename(file)
ConfigCall == setFilenameCall(FALSE)

\* if (this->writer.is_open())
ConfigIsOpen ==
  /\ cfg.pc = "is_open"
  /\ cfg' = [cfg EXCEPT !.pc = IF writer_open THEN "close" ELSE "open"]
  /\ UNCHANGED <<severity_level, indentation, log_buffer, write_guard,
                 has_backend, is_spooling, writer_open, writer_file,
                 writer_fail, sink, w_pc, d_pc, d_elapsed, p_pc, p_line,
                 p_calls, cb, s_pc, last, sections, deepest, pushed, at_start,
                 at_stop>>

\* this->writer.close()
ConfigClose ==
  /\ cfg.pc = "close"
  /\ LET w == writer_close(Writer)
     IN /\ writer_open' = w.open
        /\ writer_file' = w.file
        /\ writer_fail' = w.fail
  /\ cfg' = [cfg EXCEPT !.pc = "open"]
  /\ UNCHANGED <<severity_level, indentation, log_buffer, write_guard,
                 has_backend, is_spooling, sink, w_pc, d_pc, d_elapsed, p_pc,
                 p_line, p_calls, cb, s_pc, last, sections, deepest, pushed,
                 at_start, at_stop>>

\* this->writer.open(file, out | app)
ConfigOpen ==
  /\ cfg.pc = "open"
  /\ LET w == writer_open_call(Writer, cfg.file)
     IN /\ writer_open' = w.open
        /\ writer_file' = w.file
        /\ writer_fail' = w.fail
  /\ cfg' = [cfg EXCEPT !.pc = IF cfg.logging THEN "level" ELSE "idle",
                         !.file = ""]
  /\ UNCHANGED <<severity_level, indentation, log_buffer, write_guard,
                 has_backend, is_spooling, sink, w_pc, d_pc, d_elapsed, p_pc,
                 p_line, p_calls, cb, s_pc, last, sections, deepest, pushed,
                 at_start, at_stop>>

ConfigStep == ConfigCall \/ ConfigIsOpen \/ ConfigClose \/ ConfigOpen

\* ---- Logger::setLogging(filename, level) by the application, once, before
\* it logs
\* Logger::getLogger().setFilename(filename): the call
SetLoggingCall ==
  /\ cfg.calls = 0
  /\ d_pc = "idle"
  /\ setFilenameCall(TRUE)

\* Logger::getLogger().setSeverityLevel(severity_level), setFilename
\* returned; the level is stored whatever ~Logger has done in between
SetLoggingLevel ==
  /\ cfg.pc = "level"
  /\ severity_level' = RunLevel
  /\ cfg' = [cfg EXCEPT !.pc = "idle", !.logging = FALSE]
  /\ UNCHANGED <<indentation, log_buffer, write_guard, has_backend,
                 is_spooling, writer_open, writer_file, writer_fail, sink,
                 w_pc, d_pc, d_elapsed, p_pc, p_line, p_calls, cb, s_pc, last,
                 sections, deepest, pushed, at_start, at_stop>>

\* The writer is closed when the one call is made: its close() is not reached.
SetLoggingStep ==
  \/ SetLoggingCall
  \/ ConfigIsOpen
  \/ ConfigOpen
  \/ SetLoggingLevel

\* ---- ~Logger
\* this->severity_level = LOG_OFF
DtorBegin ==
  /\ d_pc = "idle"
  /\ severity_level' = LOG_OFF
  /\ at_start' = [begun |-> TRUE,
                  quiet |-> \A p \in Producers : p_pc[p] = "idle",
                  lines |-> pushed]
  /\ d_pc' = "clear_flag"
  /\ UNCHANGED <<indentation, log_buffer, write_guard, has_backend,
                 is_spooling, writer_open, writer_file, writer_fail, sink,
                 w_pc, d_elapsed, p_pc, p_line, p_calls, cb, cfg, s_pc, last,
                 sections, deepest, pushed, at_stop>>

\* this->is_spooling.clear(); auto start = system_clock::now()
DtorClearFlag ==
  /\ d_pc = "clear_flag"
  /\ is_spooling' = FALSE
  /\ d_elapsed' = 0
  /\ d_pc' = "wait"
  /\ UNCHANGED <<severity_level, indentation, log_buffer, write_guard,
                 has_backend, writer_open, writer_file, writer_fail, sink,
                 w_pc, p_pc, p_line, p_calls, cb, cfg, s_pc, last, sections,
                 deepest, pushed, at_start, at_stop>>

\* this->has_backend && (system_clock::now() - start).count() < 2.0
WaitCondition(backend, elapsed) == backend /\ elapsed < WaitLimit

\* One turn of the empty wait loop; the clock has moved on by a tick.
DtorSpin ==
  /\ d_pc = "wait"
  /\ WaitCondition(has_backend, d_elapsed)
  /\ d_elapsed' = IF d_elapsed < WaitLimit THEN d_elapsed + 1 ELSE d_elapsed
  /\ UNCHANGED <<severity_level, indentation, log_buffer, write_guard,
                 has_backend, is_spooling, writer_open, writer_file,
                 writer_fail, sink, w_pc, d_pc, p_pc, p_line, p_calls, cb,
                 cfg, s_pc, last, sections, deepest, pushed, at_start,
                 at_stop>>

\* The wait loop ends: the worker acknowledged, or time is up.  'start' is
\* not read again.
DtorWaitDone ==
  /\ d_pc = "wait"
  /\ ~WaitCondition(has_backend, d_elapsed)
  /\ d_elapsed' = 0
  /\ d_pc' = "flush"
  /\ UNCHANGED <<severity_level, indentation, log_buffer, write_guard,
                 has_backend, is_spooling, writer_open, writer_file,
                 writer_fail, sink, w_pc, p_pc, p_line, p_calls, cb, cfg,
                 s_pc, last, sections, deepest, pushed, at_start, at_stop>>

\* clear_backlog(), write_guard not taken: the range-for takes begin()
DtorFlush ==
  /\ d_pc = "flush"
  /\ cb' = [cb EXCEPT ![Dtor] = IdleLoop]
  /\ d_pc' = "end"
  /\ UNCHANGED <<severity_level, indentation, log_buffer, write_guard,
                 has_backend, is_spooling, writer_open, writer_file,
                 writer_fail, sink, w_pc, d_elapsed, p_pc, p_line, p_calls,
                 cfg, s_pc, last, sections, deepest, pushed, at_start,
                 at_stop>>

\* clear_backlog(): the range-for takes end()
DtorEnd ==
  /\ d_pc = "end"
  /\ cb' = [cb EXCEPT ![Dtor] = BeginLoop(Dtor)]
  /\ d_pc' = "iter"
  /\ UNCHANGED <<severity_level, indentation, log_buffer, write_guard,
                 has_backend, is_spooling, writer_open, writer_file,
                 writer_fail, sink, w_pc, d_elapsed, p_pc, p_line, p_calls,
                 cfg, s_pc, last, sections, deepest, pushed, at_start,
                 at_stop>>

DtorIter == LoopIter(Dtor)

DtorCheck == LoopCheck(Dtor)

DtorWrite == LoopWrite(Dtor)

DtorEndl == LoopEndl(Dtor)

DtorClear == LoopClear(Dtor)

\* this->logger_backend->detach()
DtorDetach ==
  /\ d_pc = "detach"
  /\ d_pc' = "is_open"
  /\ UNCHANGED <<severity_level, indentation, log_buffer, write_guard,
                 has_backend, is_spooling, writer_open, writer_file,
                 writer_fail, sink, w_pc, d_elapsed, p_pc, p_line, p_calls,
                 cb, cfg, s_pc, last, sections, deepest, pushed, at_start,
                 at_stop>>

\* if (this->writer.is_open())
DtorIsOpen ==
  /\ d_pc = "is_open"
  /\ d_pc' = IF writer_open THEN "close" ELSE "destroy_writer"
  /\ UNCHANGED <<severity_level, indentation, log_buffer, write_guard,
                 has_backend, is_spooling, writer_open, writer_file,
                 writer_fail, sink, w_pc, d_elapsed, p_pc, p_line, p_calls,
                 cb, cfg, s_pc, last, sections, deepest, pushed, at_start,
                 at_stop>>

\* this->writer.close()
DtorClose ==
  /\ d_pc = "close"
  /\ LET w == writer_close(Writer)
     IN /\ writer_open' = w.open
        /\ writer_file' = w.file
        /\ writer_fail' = w.fail
  /\ d_pc' = "destroy_writer"
  /\ UNCHANGED <<severity_level, indentation, log_buffer, write_guard,
                 has_backend, is_spooling, sink, w_pc, d_elapsed, p_pc,
                 p_line, p_calls, cb, cfg, s_pc, last, sections, deepest,
                 pushed, at_start, at_stop>>

\* The closing brace of ~Logger destroys the members, last declared first:
\* std::ofstream writer, whose destructor closes a file that is open
DtorDestroyWriter ==
  /\ d_pc = "destroy_writer"
  /\ LET w == IF writer_open THEN writer_close(Writer) ELSE Writer
     IN /\ writer_open' = w.open
        /\ writer_file' = w.file
        /\ writer_fail' = w.fail
  /\ d_pc' = "destroy_buffer"
  /\ UNCHANGED <<severity_level, indentation, log_buffer, write_guard,
                 has_backend, is_spooling, sink, w_pc, d_elapsed, p_pc,
                 p_line, p_calls, cb, cfg, s_pc, last, sections, deepest,
                 pushed, at_start, at_stop>>

\* and std::vector<std::string> log_buffer, destroyed with the lines in it:
\* its storage is freed, and what the threads still running find in it is
\* its stale size and content, or nothing
DtorDestroyBuffer ==
  /\ d_pc = "destroy_buffer"
  /\ \E left \in {log_buffer, <<>>} : log_buffer' = left
  /\ cb' = Invalidate(cb, Dtor)
  /\ d_pc' = "done"
  /\ UNCHANGED <<severity_level, indentation, write_guard, has_backend,
                 is_spooling, writer_open, writer_file, writer_fail, sink,
                 w_pc, d_elapsed, p_pc, p_line, p_calls, cfg, s_pc, last,
                 sections, deepest, pushed, at_start, at_stop>>

SpoolerStep ==
  \/ SpoolerStart
  \/ SpoolerArm
  \/ SpoolerPoll
  \/ SpoolerLock
  \/ SpoolerBegin
  \/ SpoolerIter
  \/ SpoolerCheck
  \/ SpoolerWrite
  \/ SpoolerEndl
  \/ SpoolerClear
  \/ SpoolerUnlock
  \/ SpoolerTest
  \/ SpoolerAck

DtorStep ==
  \/ DtorBegin
  \/ DtorClearFlag
  \/ DtorSpin
  \/ DtorWaitDone
  \/ DtorFlush
  \/ DtorEnd
  \/ DtorIter
  \/ DtorCheck
  \/ DtorWrite
  \/ DtorEndl
  \/ DtorClear
  \/ DtorDetach
  \/ DtorIsOpen
  \/ DtorClose
  \/ DtorDestroyWriter
  \/ DtorDestroyBuffer

ProducerStep == \E p \in Producers : PrintGate(p) \/ PrintLock(p) \/ PrintPush(p)

\* The application sets the file and the threshold with setLogging, the
\* producers log, the spooler drains, and ~Logger runs at any time.
Next == SetLoggingStep \/ ProducerStep \/ SpoolerStep \/ DtorStep

Spec == Init /\ [][Next]_vars

\* The teardown runs on a thread the scheduler keeps running.
SpecFair == Spec /\ WF_vars(DtorStep)

\* The threads of Spec and a caller that sets the log file while they run.
\* setFilename takes no lock; the writer's state is read and written one
\* step at a time.
NextCfg == Next \/ ConfigStep

SpecCfg == Init /\ [][NextCfg]_vars

\* The spooler's steps up to and including its loop test; with is_spooling
\* never cleared the test always leads back into the loop.
SpoolerLoopStep ==
  \/ SpoolerStart
  \/ SpoolerArm
  \/ SpoolerPoll
  \/ SpoolerLock
  \/ SpoolerBegin
  \/ SpoolerIter
  \/ SpoolerCheck
  \/ SpoolerWrite
  \/ SpoolerEndl
  \/ SpoolerClear
  \/ SpoolerUnlock
  \/ SpoolerTest

\* The Logger while it lives: ~Logger does not begin.  The application sets
\* the file and the threshold and calls setFilename again at any time; the
\* spooler and the producers keep being scheduled.
NextRun == SetLoggingStep \/ ConfigStep \/ ProducerStep \/ SpoolerLoopStep

SpecRunFair ==
  Init /\ [][NextRun]_vars /\ WF_vars(SpoolerLoopStep) /\ WF_vars(ProducerStep)

\* Every thread keeps being scheduled: the spooler, the teardown and the
\* producers (which therefore release write_guard).
SpecAllFair ==
  Spec /\ WF_vars(SpoolerStep) /\ WF_vars(DtorStep) /\ WF_vars(ProducerStep)

\* ------------------------------------------------ calls of one caller thread
\* One thread makes the calls, one after the other, while the spooler runs.
\* A print call is one step of this thread, taken at its push_back: the
\* thread is the only one that writes severity_level and indentation here,
\* so what the gate and the formatter read before the lock is what they
\* would read at the push.  The calls of a LogSection's constructor and
\* destructor, and the calls setFilename makes, are separate steps.

\* The caller is between two calls.
CallerIdle == s_pc = "idle" /\ cfg.pc = "idle"

\* The history record of a call: the call and the state it started in.
Call(op, level) ==
  [op |-> op, level |-> level, thr |-> severity_level, ind |-> indentation,
   npushed |-> Len(pushed)]

\* print<level>(msg) on the caller's thread: past the gate it needs the lock
\* (print_impl's lock_guard) and appends the line.
CallerPrint(level, msg) ==
  /\ PassesGate(level, severity_level) => unlocked(write_guard)
  /\ log_buffer' = print(log_buffer, severity_level, indentation, level, msg)
  /\ pushed' = print(pushed, severity_level, indentation, level, msg)
  /\ cb' = IF log_buffer' # log_buffer THEN Invalidate(cb, Caller) ELSE cb

\* void setSeverityLevel(LoggingSeverityLevel level) { severity_level = level; }
ApiSetSeverityLevel(level) ==
  /\ CallerIdle
  /\ severity_level' = level
  /\ last' = Call("setSeverityLevel", level)
  /\ UNCHANGED <<indentation, log_buffer, write_guard, has_backend,
                 is_spooling, writer_open, writer_file, writer_fail, sink,
                 w_pc, d_pc, d_elapsed, p_pc, p_line, p_calls, cb, cfg, s_pc,
                 sections, deepest, pushed, at_start, at_stop>>

\* Logger::getLogger().print<level>(msg)
ApiPrint(level, msg) ==
  /\ CallerIdle
  /\ CallerPrint(level, msg)
  /\ last' = Call("print", level)
  /\ UNCHANGED <<severity_level, indentation, write_guard, has_backend,
                 is_spooling, writer_open, writer_file, writer_fail, sink,
                 w_pc, d_pc, d_elapsed, p_pc, p_line, p_calls, cfg, s_pc,
                 sections, deepest, at_start, at_stop>>

\* Logger::appendToLog(level, msg)
ApiAppendToLog(level, msg) ==
  /\ CallerIdle
  /\ (HasCase(level) /\ PassesGate(level, severity_level))
       => unlocked(write_guard)
  /\ log_buffer' =
       appendToLog(log_buffer, severity_level, indentation, level, msg)
  /\ pushed' = appendToLog(pushed, severity_level, indentation, level, msg)
  /\ cb' = IF log_buffer' # log_buffer THEN Invalidate(cb, Caller) ELSE cb
  /\ last' = Call("appendToLog", level)
  /\ UNCHANGED <<severity_level, indentation, write_guard, has_backend,
                 is_spooling, writer_open, writer_file, writer_fail, sink,
                 w_pc, d_pc, d_elapsed, p_pc, p_line, p_calls, cfg, s_pc,
                 sections, deepest, at_start, at_stop>>

\* ---- LogSection<level>::LogSection(title)
\* Logger::getLogger().print<level>(title)
EnterTitle(level) ==
  /\ CallerIdle
  /\ Len(sections) < MaxDepth
  /\ CallerPrint(level, TitleX)
  /\ last' = Call("enterSection", level)
  /\ s_pc' = "open"
  /\ UNCHANGED <<severity_level, indentation, write_guard, has_backend,
                 is_spooling, writer_open, writer_file, writer_fail, sink,
                 w_pc, d_pc, d_elapsed, p_pc, p_line, p_calls, cfg, sections,
                 deepest, at_start, at_stop>>

\* Logger::getLogger().print<level>(std::string("{"))
EnterOpen ==
  /\ s_pc = "open"
  /\ CallerPrint(last.level, OpenMark)
  /\ s_pc' = "indent"
  /\ UNCHANGED <<severity_level, indentation, write_guard, has_backend,
                 is_spooling, writer_open, writer_file, writer_fail, sink,
                 w_pc, d_pc, d_elapsed, p_pc, p_line, p_calls, cfg, last,
                 sections, deepest, at_start, at_stop>>

\* Logger::getLogger().indent(): lock_guard, indentation++
EnterIndent ==
  /\ s_pc = "indent"
  /\ unlocked(write_guard)
  /\ indentation' = indent(indentation)
  /\ sections' = Append(sections, last.level)
  /\ deepest' = IF Len(sections') > deepest THEN Len(sections') ELSE deepest
  /\ s_pc' = "idle"
  /\ UNCHANGED <<severity_level, log_buffer, write_guard, has_backend,
                 is_spooling, writer_open, writer_file, writer_fail, sink,
                 w_pc, d_pc, d_elapsed, p_pc, p_line, p_calls, cb, cfg, last,
                 pushed, at_start, at_stop>>

\* ---- LogSection<level>::~LogSection()
\* Logger::getLogger().unindent(): lock_guard, indentation--
ExitUnindent ==
  /\ CallerIdle
  /\ Len(sections) > 0
  /\ unlocked(write_guard)
  /\ indentation' = unindent(indentation)
  /\ last' = Call("exitSection", sections[Len(sections)])
  /\ sections' = SubSeq(sections, 1, Len(sections) - 1)
  /\ s_pc' = "close"
  /\ UNCHANGED <<severity_level, log_buffer, write_guard, has_backend,
                 is_spooling, writer_open, writer_file, writer_fail, sink,
                 w_pc, d_pc, d_elapsed, p_pc, p_line, p_calls, cb, cfg,
                 deepest, pushed, at_start, at_stop>>

\* Logger::getLogger().print<level>(std::string("}"))
ExitClose ==
  /\ s_pc = "close"
  /\ CallerPrint(last.level, CloseMark)
  /\ s_pc' = "idle"
  /\ UNCHANGED <<severity_level, indentation, write_guard, has_backend,
                 is_spooling, writer_open, writer_file, writer_fail, sink,
                 w_pc, d_pc, d_elapsed, p_pc, p_line, p_calls, cfg, last,
                 sections, deepest, at_start, at_stop>>

\* The severity gate: every level against every threshold.
GateNext ==
  \/ \E level \in Levels : ApiSetSeverityLevel(level)
  \/ \E level \in Levels : ApiPrint(level, MsgA) /\ Len(pushed') <= MaxLines
  \/ \E level \in Levels :
       ApiAppendToLog(level, MsgA) /\ Len(pushed') <= MaxLines
  \/ SpoolerLoopStep

SpecGate == Init /\ [][GateNext]_vars

\* Sections: enter and exit around log calls.  A call starts only when the
\* lines it can append fit the bound.
SectionLevels == {LOG_INFO, LOG_TRACE}
SectionNext ==
  \/ \E level \in {LOG_FINE} : ApiSetSeverityLevel(level)
  \/ \E level \in {LOG_INFO} :
       ApiPrint(level, MsgA) /\ Len(pushed') <= MaxSectionLines
  \/ \E level \in SectionLevels :
       EnterTitle(level) /\ Len(pushed) + 2 <= MaxSectionLines
  \/ EnterOpen
  \/ EnterIndent
  \/ ExitUnindent /\ Len(pushed) + 1 <= MaxSectionLines
  \/ ExitClose
  \/ SpoolerLoopStep

SpecSection == Init /\ [][SectionNext]_vars

\* The sink: set a target, log, while the spooler writes.
SinkLevels == {LOG_ERRORS, LOG_INFO}
SinkNext ==
  \/ \E level \in SinkLevels : ApiSetSeverityLevel(level)
  \/ ConfigStep
  \/ \E level \in SinkLevels : ApiPrint(level, MsgA) /\ Len(pushed') <= MaxLines
  \/ SpoolerLoopStep

SpecSink == Init /\ [][SinkNext]_vars

\* ------------------------------------------------------------- claims
\* The lines the caller's last call has appended.
Added == Len(pushed) - last.npushed
\* The line appended last.
LastLine == pushed[Len(pushed)]
\* The step is a call of the caller thread, of the kind op.
CallStep(op) == last' # last /\ last'.op = op

\* C3: a print<L> call under threshold T appends exactly one line to the
\* buffer when L <= T, and leaves the buffer as it was when L > T.
C3_SeverityGate ==
  [][CallStep("print") =>
       IF last'.level <= last'.thr
         THEN /\ Len(log_buffer') = Len(log_buffer) + 1
              /\ SubSeq(log_buffer', 1, Len(log_buffer)) = log_buffer
              /\ log_buffer'[Len(log_buffer')].text = MsgA
         ELSE log_buffer' = log_buffer]_vars

C3_Witness ==
  /\ last.op = "print"
  /\ last.level = LOG_INFO
  /\ last.thr = LOG_INFO
  /\ Added = 1
  /\ LastLine.text = MsgA

\* C4 as stated: while the threshold is OFF no log call at any level, level
\* OFF included, appends a line.
C4_OffDisablesAll ==
  [][((CallStep("print") \/ CallStep("appendToLog")) /\ last'.thr = LOG_OFF)
       => log_buffer' = log_buffer]_vars

\* C4 amended: while the threshold is OFF no log call at a level from ERROR
\* to ALL appends a line, while print<LOG_OFF> passes the gate (OFF <= OFF)
\* and appends one.
C4_OffDisablesAboveOff ==
  [][((CallStep("print") \/ CallStep("appendToLog")) /\ last'.thr = LOG_OFF)
       => IF last'.op = "print" /\ last'.level = LOG_OFF
            THEN /\ Len(log_buffer') = Len(log_buffer) + 1
                 /\ SubSeq(log_buffer', 1, Len(log_buffer)) = log_buffer
            ELSE log_buffer' = log_buffer]_vars

C4_Witness ==
  /\ last.op = "print"
  /\ last.thr = LOG_OFF
  /\ last.level = LOG_ERRORS
  /\ last.npushed = 1
  /\ Added = 0

\* C6: the indentation depth equals the number of sections entered and not
\* yet exited (so it is 0 again after the last exit), and a line logged at
\* that moment carries four spaces per open section.
C6_SectionNesting ==
  /\ s_pc = "idle" => indentation = Len(sections)
  /\ (last.op = "print" /\ Added = 1) =>
       LastLine.pad = IndentWidth * Len(sections)

C6_Witness ==
  /\ deepest = 2
  /\ sections = <<>>
  /\ indentation = 0
  /\ s_pc = "idle"
  /\ last.op = "exitSection"
  /\ \E i, j \in DOMAIN pushed :
       /\ i < j
       /\ pushed[i].text = MsgA /\ pushed[i].pad = IndentWidth
       /\ pushed[j].text = MsgA /\ pushed[j].pad = 2 * IndentWidth

\* C7: setFilename on a path that cannot be opened returns with no handle
\* open; a line written while no handle is open goes to the console, and a
\* line written while a handle is open goes to that file.
C7_SinkFallback ==
  [][/\ (cfg.pc = "open" /\ cfg'.pc = "idle" /\ ~CanOpen(cfg.file))
          => ~writer_open'
     /\ (w_pc = "write" /\ w_pc' = "endl") =>
          sink' = Append(sink,
                         [to |-> IF writer_open THEN writer_file ELSE Console,
                          str |-> cb[Spooler].cur])]_vars

\* C8 as stated: appendToLog(L, m) has the effect of print<L>(m) on the
\* buffer for every level L from OFF to ALL.
C8_AppendRawEquivalence ==
  [][CallStep("appendToLog") =>
       log_buffer' =
         print(log_buffer, last'.thr, last'.ind, last'.level, MsgA)]_vars

\* How often the text of a line has been written to the sink.
Count(line) == Cardinality({i \in DOMAIN sink : sink[i].str = line})
\* The insertions of text.
Texts == {i \in DOMAIN sink : sink[i].str # EndL}
\* The insertions into one stream, in order.
Stream(to) == SelectSeq(sink, LAMBDA e : e.to = to)
\* No text in the sink is followed by another text before its newline.
Intact ==
  \A to \in {Console, GoodFile} :
    \A i \in 1 .. Len(Stream(to)) - 1 :
      Stream(to)[i].str # EndL => Stream(to)[i + 1].str = EndL

\* C1: the producers pushed their lines and had all returned when ~Logger
\* began; once ~Logger is done the sink holds exactly the pushed lines, each
\* of them once and none joined to another.
C1_NoLossNoDuplication ==
  (d_pc = "done" /\ at_start.quiet /\ pushed # <<>>) =>
    /\ Cardinality(Texts) = Len(pushed)
    /\ \A i \in DOMAIN pushed : Count(pushed[i]) = 1
    /\ Intact

\* C2: once ~Logger is done, every line pushed before it began has been
\* written to the sink.
C2_ShutdownFlush ==
  d_pc = "done" => \A i \in DOMAIN at_start.lines : Count(at_start.lines[i]) >= 1

\* C5: the lines of one producer appear in the sink in the order the producer
\* pushed them: no later line of a thread stands before an earlier one.
C5_OrderPreserved ==
  \A i, j \in DOMAIN sink :
    (/\ i < j
     /\ Len(sink[i].str.text) = 2
     /\ Len(sink[j].str.text) = 2
     /\ sink[i].str.text[1] = sink[j].str.text[1])
    => sink[i].str.text[2] <= sink[j].str.text[2]

\* C9: ~Logger never takes write_guard, and once begun it reaches its end,
\* whatever the spooler and the producers do or fail to do.
C9_TeardownCompletes ==
  /\ [](write_guard # Dtor)
  /\ (d_pc # "idle") ~> (d_pc = "done")

\* C10 as stated: when the spooler signals finished, every line that was in
\* the buffer when its flag test observed the stop has been written.
C10_FinalDrainAfterStop ==
  (w_pc = "parked" /\ at_stop.seen) =>
    \A i \in DOMAIN at_stop.buf : Count(at_stop.buf[i]) >= 1

\* C10 amended: the spooler's drain pass comes before its flag test; the
\* test that observes the stop leads straight to the 'finished' signal,
\* which touches neither the buffer nor the sink.
C10_NoPassAfterStop ==
  [][/\ (w_pc = "test" /\ w_pc' \notin {"test", "dead"} /\ ~is_spooling)
          => w_pc' = "ack"
     /\ (w_pc = "ack" /\ w_pc' \notin {"ack", "dead"}) =>
          /\ w_pc' = "parked"
          /\ ~has_backend'
          /\ log_buffer' = log_buffer
          /\ sink' = sink]_vars

C10_Witness ==
  /\ w_pc = "parked"
  /\ ~has_backend
  /\ at_stop.seen
  /\ at_stop.buf # <<>>
  /\ log_buffer = at_stop.buf
  /\ Count(log_buffer[1]) = 0

\* Teardown has executed is_spooling.clear().
StopSignalled == d_pc \notin {"idle", "clear_flag"}

\* C11: with every thread scheduled fairly, once ~Logger has cleared
\* is_spooling the spooler eventually leaves its loop and signals finished.
C11_StopAcknowledged == StopSignalled ~> (w_pc = "parked")

\* The spooler is between writing_lock.lock() and writing_lock.unlock().
SpoolerDraining ==
  w_pc \in {"begin", "iter", "check", "write", "endl", "clear", "unlock"}

\* C12 (as stated): while the spooler writes a line to the sink it does not
\* hold write_guard.
C12_WritesOutsideLock ==
  (w_pc \in {"check", "write", "endl"}) => (write_guard # Spooler)

\* C12 (amended): the spooler owns write_guard from the start of its
\* clear_backlog() to the unlock after it, so also while it writes each line;
\* no producer is inside print_impl's critical section during that time.
C12_WritesUnderLock ==
  /\ SpoolerDraining => write_guard = Spooler
  /\ \A p \in Producers : p_pc[p] = "locked" => ~SpoolerDraining

\* The spooler is about to write a line while a producer waits for the lock.
C12_Witness ==
  /\ w_pc = "write"
  /\ write_guard = Spooler
  /\ \E p \in Producers : p_pc[p] = "formatted"

\* The threads that are appending to, iterating or clearing log_buffer:
\* a producer inside print_impl, a drainer inside clear_backlog.
Mutators ==
  {p \in Producers : p_pc[p] = "locked"}
    \cup {t \in Drainers :
            DrainerPc(t) \in {"iter", "check", "write", "endl", "clear"}}

\* C13 (as stated): every thread that is appending to, iterating or clearing
\* the buffer holds write_guard, so at most one thread is inside a buffer
\* mutation.
C13_MutationUnderLock ==
  /\ \A t \in Mutators : write_guard = t
  /\ Cardinality(Mutators) <= 1

\* C13 (amended): every producer inside print_impl and the spooler inside
\* clear_backlog hold write_guard, so no two of them mutate the buffer at the
\* same time; ~Logger never holds write_guard, also not inside its
\* clear_backlog.
C13_LockedExceptTeardown ==
  /\ \A t \in Mutators \ {Dtor} : write_guard = t
  /\ Cardinality(Mutators \ {Dtor}) <= 1
  /\ write_guard # Dtor

\* ~Logger iterates the buffer without the lock while the spooler, holding
\* the lock, is inside its own clear_backlog.
C13_Witness ==
  /\ Mutators = {Spooler, Dtor}
  /\ write_guard = Spooler

\* The threads that are operating on the writer: inside setFilename, inside
\* performWrite, or at ~Logger's close.
SinkUsers ==
  {t \in Drainers : DrainerPc(t) \in {"check", "write", "endl"}}
    \cup (IF d_pc \in {"is_open", "close"} THEN {Dtor} ELSE {})
    \cup (IF cfg.pc \in {"is_open", "close", "open"} THEN {Caller} ELSE {})

\* C14: at most one thread at a time operates on the sink handle; a
\* setFilename call never overlaps a spooler write.
C14_SinkNotShared == Cardinality(SinkUsers) <= 1

WorkerState ==
  IF at_stop.acked THEN 2
  ELSE IF StopSignalled /\ (~is_spooling \/ at_stop.seen) THEN 1
  ELSE 0

\* C16: the worker's state never moves backwards; once ~Logger has cleared
\* is_spooling no step makes the spooler poll again as if no stop had been
\* requested.
C16_WorkerStateMonotone == [][WorkerState' >= WorkerState]_vars

\* C17: while ~Logger does not begin and the threads are scheduled fairly,
\* every line a producer has appended is eventually written to the sink by
\* the spooler, whatever else the application calls in the meantime.
C17_EveryLineWritten ==
  \A k \in 1 .. MaxCalls :
    (Len(pushed) >= k) ~> (Len(pushed) >= k /\ Count(pushed[k]) >= 1)

\* C18 (as stated): a line logged at ERROR, WARNING, INFO or FINE carries
\* that level's label; a line logged at any other level (OFF, ALL, TRACE)
\* carries the TRACE label.
C18_OthersAsTrace ==
  (last.op = "print" /\ Added = 1) =>
    LastLine.label = CASE last.level = LOG_ERRORS -> "ERROR   "
                       [] last.level = LOG_WARNINGS -> "WARNING "
                       [] last.level = LOG_INFO -> "INFO    "
                       [] last.level = LOG_FINE -> "FINE    "
                       [] OTHER -> "TRACE   "

\* C18 (amended): ERROR, WARNING, INFO and FINE carry their own labels, OFF
\* and TRACE carry the TRACE label, and ALL carries the ERROR label.
C18_LabelMapping ==
  (last.op = "print" /\ Added = 1) =>
    LastLine.label = CASE last.level \in {LOG_ERRORS, LOG_ALL} -> "ERROR   "
                       [] last.level = LOG_WARNINGS -> "WARNING "
                       [] last.level = LOG_INFO -> "INFO    "
                       [] last.level = LOG_FINE -> "FINE    "
                       [] last.level \in {LOG_TRACE, LOG_OFF} -> "TRACE   "

\* A line logged at LOG_ALL has been appended, labelled as an error.
C18_Witness ==
  /\ last.op = "print"
  /\ last.level = LOG_ALL
  /\ Added = 1
  /\ LastLine.label = "ERROR   "

\* C19: entering a section raises the indentation depth by one and leaving
\* it lowers the depth by one whether or not the section's level passes the
\* threshold; a section whose level is above the threshold buffers neither
\* its title nor its markers (one that passes buffers two lines on entry and
\* one on exit), and a line logged inside carries four spaces per open
\* section all the same.
C19_SectionIndentUngated ==
  /\ (last.op = "enterSection" /\ s_pc = "idle") =>
       /\ indentation = last.ind + 1
       /\ Added = IF last.level <= last.thr THEN 2 ELSE 0
  /\ (last.op = "exitSection" /\ s_pc = "idle") =>
       /\ indentation = last.ind - 1
       /\ Added = IF last.level <= last.thr THEN 1 ELSE 0
  /\ (last.op = "print" /\ Added = 1) =>
       LastLine.pad = IndentWidth * Len(sections)

\* Inside one section whose level is above the threshold: nothing of the
\* section has been appended, and the only line, logged inside it, is
\* indented by one level.
C19_Witness ==
  /\ sections = <<LOG_TRACE>>
  /\ severity_level = LOG_FINE
  /\ s_pc = "idle"
  /\ last.op = "print"
  /\ Len(pushed) = 1
  /\ pushed[1].text = MsgA
  /\ pushed[1].pad = IndentWidth

\* C20: once ~Logger has finished (flush done, thread detached, file
\* closed) the spooler thread takes no further step on the Logger: no loop
\* iteration and no write of a flag.
C20_NoAccessAfterTeardown ==
  [][(d_pc = "done") =>
       /\ w_pc' = w_pc
       /\ has_backend' = has_backend
       /\ is_spooling' = is_spooling]_vars

====
